---- MODULE Spec2Model ----
(***************************************************************************)
(* The posting engine of the ledger service (internal/transactions) over   *)
(* a PostgreSQL store at the default READ COMMITTED isolation level.       *)
(*                                                                         *)
(* Every caller runs one posting call, CreateSimpleTransaction or          *)
(* CreateDoubleEntryTransaction, one store call per step.  The store keeps *)
(* the committed tables and, per open database transaction, a write set    *)
(* that becomes visible to the others at Commit.  Row locks (SELECT ...    *)
(* FOR UPDATE, UPDATE), unique indexes (idempotency_key, account_balances  *)
(* primary key) and the events sequence behave as PostgreSQL defines them. *)
(*                                                                         *)
(* The repository holds two revisions of internal/transactions/service.go: *)
(* the one with calculateNewBalance and the event service ("typed") and    *)
(* the one without either ("legacy").  The variable rev says which one is  *)
(* built; it never changes.                                                *)
(***************************************************************************)
EXTENDS Integers, Sequences, FiniteSets, TLC

\* ------------------------------------------------------------------ bounds
NumCallers == 2
MaxAmount == 1
MaxEntries == 2
MaxCalc == 3
MinAmount == 0 - 1

\* ------------------------------------------------------------- static data
Callers == 1..NumCallers
Revisions == {"typed", "legacy"}
AccountTypes == {"asset", "liability", "equity", "revenue", "expense"}
Keys == {"k1", "k2"}
Codes == {"1000", "2000", "3000", "9999"}
Sides == {"debit", "credit"}
Currencies == {"NGN", "USD"}

\* The chart of accounts of the tenant: 1000 Cash, 2000 Accounts Payable,
\* 3000 an expense account that was deactivated; no account has code 9999.
Accounts == {"1000", "2000", "3000"}
InactiveAccounts == {"3000"}
AccountType(code) ==
    IF code = "1000" THEN "asset" ELSE IF code = "3000" THEN "expense" ELSE "liability"

NoRow == [exists |-> FALSE, currency |-> "", balance |-> 0, version |-> 0]
NoTx == [exists |-> FALSE, key |-> "", status |-> ""]
NoReq == [kind |-> "", key |-> "", entries |-> <<>>]
NoRes == [err |-> "", id |-> 0]
NoCalc == [b |-> 0, a |-> 0, side |-> "", type |-> "", done |-> FALSE, out |-> 0]
NoChange == [set |-> FALSE, old |-> 0, new |-> 0, currency |-> ""]

\* A row inserted with version 0.
CreateAccountBalanceRowV0(currency, balance) ==
    [exists |-> TRUE, currency |-> currency, balance |-> balance, version |-> 0]

\* CreateAccountBalance: INSERT ... VALUES ($1, $2, $3, 1).
CreateAccountBalanceRow(currency, balance) ==
    [exists |-> TRUE, currency |-> currency, balance |-> balance, version |-> 1]

\* CreateAccount initialises the balance row of the account's default
\* currency and goes on when that insert fails: accounts 1000 and 3000 have
\* their row, account 2000 was left without one.
InitialBalanceRow(code) ==
    IF code \in {"1000", "3000"} THEN CreateAccountBalanceRow("NGN", 0) ELSE NoRow

\* What the client behind each caller puts in its requests: account codes,
\* amounts and currencies.
VARIABLE clients

\* Clients that name active accounts and send positive amounts.
ValidClients ==
    [p \in Callers |->
        [codes |-> {"1000", "2000"}, amounts |-> 1..MaxAmount,
         currencies |-> Currencies]]

\* The client of the last caller also sends zero and negative amounts.
CarelessClients ==
    [p \in Callers |->
        IF p < NumCallers
        THEN [codes |-> {"1000", "2000"}, amounts |-> 1..MaxAmount,
              currencies |-> {"NGN"}]
        ELSE [codes |-> {"1000", "2000"}, amounts |-> MinAmount..MaxAmount,
              currencies |-> {"NGN"}]]

\* The client of the last caller also names a deactivated and an unknown
\* account.
StrayClients ==
    [p \in Callers |->
        IF p < NumCallers
        THEN [codes |-> {"1000", "2000"}, amounts |-> 1..MaxAmount,
              currencies |-> {"NGN"}]
        ELSE [codes |-> Codes, amounts |-> 1..MaxAmount, currencies |-> {"NGN"}]]

Entries(p) ==
    [code : clients[p].codes, amount : clients[p].amounts, side : Sides,
     currency : clients[p].currencies]
SimpleRequests(p) ==
    {[kind |-> "simple", key |-> k, entries |-> <<e>>] :
        k \in Keys, e \in Entries(p)}
DoubleRequests(p) ==
    {[kind |-> "double", key |-> k, entries |-> es] :
        k \in Keys, es \in UNION {[1..n -> Entries(p)] : n \in 1..MaxEntries}}
Requests(p) == SimpleRequests(p) \cup DoubleRequests(p)

\* ------------------------------------------------------------------- state
VARIABLES
    rev,          \* the revision of service.go that is built
    transactions, \* committed rows of transactions: [id, key, status]
    lines,        \* committed rows of transaction_lines
    balances,     \* committed rows of account_balances, by account
    events,       \* committed rows of events
    nextSeq,      \* the events.sequence_number sequence (never rolled back)
    wTx,          \* per caller: the transactions row its open transaction wrote
    wLines,       \* per caller: the lines its open transaction inserted
    wBal,         \* per caller: the balance rows its open transaction wrote
    wEvents,      \* per caller: the events its open transaction inserted
    lockedBy,     \* per account: the caller holding the balance row lock, or 0
    pc,           \* per caller: the statement it is about to run
    req,          \* per caller: the request of its call
    res,          \* per caller: what the call returned
    idx,          \* per caller: index of the entry being processed
    balRead,      \* per caller: updateAccountBalance's local `balance`
    oldBal,       \* per caller: the local `oldBalance`
    changes,      \* per caller: the local map balanceChanges
    replay,       \* per caller: its key was committed when the call started
    log,          \* begin and commit instants of the database transactions
    calc          \* one application of calculateNewBalance: arguments and result

\* The webhook subsystem (internal/webhooks): the tenant's metadata, the
\* webhook_deliveries table and the processes that work on it.
VARIABLES
    tenant,       \* the webhook keys of tenants.metadata
    deliveries,   \* rows of webhook_deliveries, in insertion order (index = id)
    now,          \* NOW() of the database, in minutes
    pass,         \* per pass process: position, fetched batch, HTTP result
    retry,        \* the manual RetryWebhookDelivery call: position, row, answer
    posts,        \* per delivery row: HTTP requests sent for it
    queued,       \* QueueWebhookDelivery calls made, and the last event's type
    configures,   \* ConfigureWebhook calls made
    batchSize,    \* the batchSize the passes fetch with
    ctx           \* the context StartDeliveryWorker was given: live or cancelled

\* A consumer of the event stream (GetEventStream).
VARIABLES
    cursor,       \* the largest sequence number the consumer has received
    received      \* the sequence numbers it received, in order

\* The chart of accounts at run time (internal/accounts).
VARIABLES
    deactivated,  \* accounts whose is_active a DeactivateAccount call set to false
    children,     \* accounts that have an active child account
    closing,      \* the DeactivateAccount call: position and account
    opening       \* the CreateAccount call for a child account: position and parent

\* The connection pool shared by the requests of all tenants (internal/storage).
VARIABLES
    searchPath,   \* per pooled connection: the schema its search_path names
    heldBy,       \* per pooled connection: the request whose transaction holds it
    rq            \* per tenant's request: position, connection, namespaces used

runVars == <<batchSize, ctx>>
whVars == <<tenant, deliveries, now, pass, retry, posts, queued, configures, runVars>>

\* What no step of a posting call changes.
streamVars == <<cursor, received>>
chartVars == <<deactivated, children, closing, opening>>
poolVars == <<searchPath, heldBy, rq>>
sideVars == <<streamVars, chartVars, poolVars>>
fixedVars == <<rev, calc, clients, whVars, sideVars>>
dbVars == <<transactions, lines, balances, events>>
txVars == <<wTx, wLines, wBal, wEvents, lockedBy>>
localVars == <<idx, balRead, oldBal, changes>>
vars == <<rev, transactions, lines, balances, events, nextSeq, wTx, wLines, wBal,
          wEvents, lockedBy, pc, req, res, idx, balRead, oldBal, changes, replay, log,
          calc, clients, whVars, sideVars>>

\* SQL NULL in an integer or timestamp column.
Null == 0 - 1

\* WorkerBatchSize is 10 in the source; a batch of one row out of two keeps
\* the LIMIT of the fetch in play.
WorkerBatchSize == 1

\* Workers of the delivery table: the background worker and a
\* ProcessAllPendingDeliveries run.
Passes == {"worker", "all"}

NoPass == [pc |-> "idle", batch |-> <<>>, at |-> 0, i |-> 0, result |-> Null]
NoRetry == [pc |-> "idle", id |-> 0, res |-> ""]
NoEvents == [given |-> FALSE, list |-> <<>>]
NoMetadata == [url |-> "absent", secret |-> "absent", events |-> NoEvents,
               enabled |-> "absent"]

\* Pooled connections (DATABASE_MAX_CONNECTIONS is 25 by default) and the
\* tenants whose requests share them.
NumConns == 2
Conns == 1..NumConns
Tenants == {"a", "b"}
Schemas == {"public"} \cup {"tenant_a", "tenant_b"}

NoClosing == [pc |-> "idle", code |-> ""]
NoOpening == [pc |-> "idle", parent |-> ""]
NoRq == [pc |-> "idle", conn |-> 0, used |-> {}]

\* No stream consumer, no change of the chart of accounts, and the pool as
\* NewPostgresDB leaves it.
SidesIdle ==
    /\ cursor = 0 /\ received = <<>>
    /\ deactivated = {} /\ children = {}
    /\ closing = NoClosing /\ opening = NoOpening
    /\ searchPath = [c \in Conns |-> "public"]
    /\ heldBy = [c \in Conns |-> ""]
    /\ rq = [t \in Tenants |-> NoRq]

\* The webhook subsystem is not running.
NoWebhooks ==
    /\ tenant = NoMetadata
    /\ deliveries = <<>>
    /\ now = 0
    /\ pass = [w \in Passes |-> NoPass]
    /\ retry = NoRetry
    /\ posts = <<>>
    /\ queued = [n |-> 0, type |-> ""]
    /\ configures = 0
    /\ batchSize = WorkerBatchSize /\ ctx = "live"

Init ==
    /\ rev \in Revisions
    /\ transactions = {}
    /\ lines = {}
    /\ balances = [c \in Codes |-> InitialBalanceRow(c)]
    /\ events = {}
    /\ nextSeq = 1
    /\ wTx = [p \in Callers |-> NoTx]
    /\ wLines = [p \in Callers |-> <<>>]
    /\ wBal = [p \in Callers |-> [c \in Codes |-> NoRow]]
    /\ wEvents = [p \in Callers |-> <<>>]
    /\ lockedBy = [c \in Codes |-> 0]
    /\ pc = [p \in Callers |-> "idle"]
    /\ req = [p \in Callers |-> NoReq]
    /\ res = [p \in Callers |-> NoRes]
    /\ idx = [p \in Callers |-> 0]
    /\ balRead = [p \in Callers |-> NoRow]
    /\ oldBal = [p \in Callers |-> 0]
    /\ changes = [p \in Callers |-> [c \in Codes |-> NoChange]]
    /\ replay = [p \in Callers |-> FALSE]
    /\ log = <<>>
    /\ SidesIdle
    /\ calc = NoCalc
    /\ clients = ValidClients
    /\ NoWebhooks

\* ---------------------------------------------------------- pure functions
\* A rule that ignores the account type.
naiveNewBalance(currentBalance, amount, side, accountType) ==
    IF side = "debit" THEN currentBalance + amount ELSE currentBalance - amount

\* calculateNewBalance: the type-aware signed-balance rule.
calculateNewBalance(currentBalance, amount, side, accountType) ==
    IF accountType \in {"asset", "expense"}
    THEN IF side = "debit" THEN currentBalance + amount ELSE currentBalance - amount
    ELSE IF accountType \in {"liability", "equity", "revenue"}
         THEN IF side = "credit" THEN currentBalance + amount ELSE currentBalance - amount
         ELSE IF side = "debit" THEN currentBalance + amount ELSE currentBalance - amount

\* The legacy updateAccountBalance: +debit / -credit whatever the account type.
legacyNewBalance(currentBalance, amount, side) ==
    IF side = "debit" THEN currentBalance + amount ELSE currentBalance - amount

\* The balance updateAccountBalance writes, in the revision that is built.
newBalanceOf(currentBalance, amount, side, accountType) ==
    IF rev = "typed"
    THEN calculateNewBalance(currentBalance, amount, side, accountType)
    ELSE legacyNewBalance(currentBalance, amount, side)

RECURSIVE SideTotal(_, _, _)
SideTotal(entries, side, n) ==
    IF n = 0 THEN 0
    ELSE SideTotal(entries, side, n - 1)
         + (IF entries[n].side = side THEN entries[n].amount ELSE 0)

\* In validateDoubleEntryBalance every entry that is not a debit counts as a credit.
debitTotal(entries) == SideTotal(entries, "debit", Len(entries))
creditTotal(entries) == SideTotal(entries, "credit", Len(entries))

\* A comparison that accepts any two totals.
TotalsAlwaysEqual(debits, credits) == TRUE

\* debitTotal.Equal(creditTotal): exact decimal equality.
TotalsEqual(debits, credits) == debits = credits

\* A validation that only counts the entries.
validateLengthOnly(entries) ==
    IF Len(entries) < 2 THEN "EmptyTransactionLines" ELSE "none"

validateDoubleEntryBalance(entries) ==
    IF Len(entries) < 2 THEN "EmptyTransactionLines"
    ELSE IF ~TotalsEqual(debitTotal(entries), creditTotal(entries))
         THEN "UnbalancedTransaction"
         ELSE "none"

validateCurrencyConsistency(entries) ==
    IF Len(entries) = 0 THEN "EmptyTransactionLines"
    ELSE IF \E i \in 2..Len(entries) : entries[i].currency # entries[1].currency
         THEN "InvalidCurrency"
         ELSE "none"

\* The checks CreateDoubleEntryTransaction runs before it touches the store.
ValidateRequest(r) ==
    IF r.kind = "simple" THEN "none"
    ELSE IF validateDoubleEntryBalance(r.entries) # "none"
         THEN validateDoubleEntryBalance(r.entries)
         ELSE validateCurrencyConsistency(r.entries)

\* ------------------------------------------------------------------- store
\* GetAccountByCode: WHERE code = $1 AND is_active = true.
AccountActive(code) == code \in Accounts \ (InactiveAccounts \cup deactivated)

\* The committed rows of transactions under UNIQUE(idempotency_key).
KeyCommitted(key) == \E t \in transactions : t.key = key

\* A probe that never finds the key.
ProbeMisses(key) == {}

\* GetTransactionByIdempotencyKey on the pool: committed rows only.
GetTransactionByIdempotencyKey(key) == {t \in transactions : t.key = key}

\* An index on which an insert never waits for a concurrent one.
NoKeyInDoubt(p, key) == FALSE

\* An uncommitted insert of the same idempotency key by another transaction:
\* the unique index makes a second insert wait for its outcome.
KeyInDoubt(p, key) ==
    \E q \in Callers \ {p} : wTx[q].exists /\ wTx[q].key = key

\* What a statement of p's transaction sees of an account's balance row.
VisibleRow(p, code) == IF wBal[p][code].exists THEN wBal[p][code] ELSE balances[code]

\* GetAccountBalanceForUpdate: WHERE account_id = $1 AND currency = $2.
GetAccountBalanceForUpdate(p, code, currency) ==
    IF VisibleRow(p, code).exists /\ VisibleRow(p, code).currency = currency
    THEN VisibleRow(p, code)
    ELSE NoRow

\* The same SELECT without FOR UPDATE: no lock is taken.
SelectWithoutLock(p, code, found) == lockedBy

\* ... FOR UPDATE: the row found stays locked until the transaction ends.
SelectForUpdateLock(p, code, found) ==
    IF found /\ balances[code].exists THEN [lockedBy EXCEPT ![code] = p] ELSE lockedBy

\* A store in which no statement waits for a row lock.
NoRowLockWait(p, code) == FALSE

\* A statement that locks or updates a committed row waits while another
\* transaction holds the row lock.
RowLockWait(p, code) == balances[code].exists /\ lockedBy[code] \notin {0, p}

\* An uncommitted insert of the account's balance row by another transaction:
\* the primary key makes a second insert wait for its outcome.
BalanceInDoubt(p, code) ==
    \E q \in Callers \ {p} : wBal[q][code].exists /\ ~balances[code].exists

\* UpdateAccountBalance: SET balance = $3, version = version + 1
\* WHERE account_id = $1 AND currency = $2 AND version = $4.
UpdateAccountBalanceMatches(row, currency, version) ==
    row.exists /\ row.currency = currency /\ row.version = version
UpdateAccountBalanceRow(row, balance) ==
    [row EXCEPT !.balance = balance, !.version = row.version + 1]

\* ---------------------------------------------------------- control flow
Entry(p) == req[p].entries[idx[p]]

AfterCreateTransaction(p) ==
    IF rev = "typed" /\ req[p].kind = "double" THEN "oldBal" ELSE "line"
AfterCreateLine(p) ==
    IF rev = "typed" /\ req[p].kind = "simple" THEN "oldBal" ELSE "uabGet"
AfterOldBalance(p) ==
    IF req[p].kind = "simple" THEN "uabGet" ELSE "line"
NextEntry(p) ==
    IF rev = "typed" THEN "oldBal" ELSE "line"
AfterStatus(p) ==
    IF rev = "typed" THEN "pubTx" ELSE "commit"

ClearLocals(p) ==
    /\ idx' = [idx EXCEPT ![p] = 0]
    /\ balRead' = [balRead EXCEPT ![p] = NoRow]
    /\ oldBal' = [oldBal EXCEPT ![p] = 0]
    /\ changes' = [changes EXCEPT ![p] = [c \in Codes |-> NoChange]]

\* tx.Rollback: the write set is dropped and the row locks are released.
Rollback(p) ==
    /\ wTx' = [wTx EXCEPT ![p] = NoTx]
    /\ wLines' = [wLines EXCEPT ![p] = <<>>]
    /\ wBal' = [wBal EXCEPT ![p] = [c \in Codes |-> NoRow]]
    /\ wEvents' = [wEvents EXCEPT ![p] = <<>>]
    /\ lockedBy' = [c \in Codes |-> IF lockedBy[c] = p THEN 0 ELSE lockedBy[c]]

\* `return nil, err` with the deferred tx.Rollback.
ReturnError(p, e) ==
    /\ pc' = [pc EXCEPT ![p] = "done"]
    /\ res' = [res EXCEPT ![p] = [err |-> e, id |-> 0]]
    /\ Rollback(p)
    /\ ClearLocals(p)
    /\ UNCHANGED <<fixedVars, dbVars, nextSeq, req, replay, log>>

\* ----------------------------------------------------------------- actions
\* A posting call starts: GetTenantBySlug, SetSearchPath and, for a double
\* entry, the two validations, which run before any store call of the tenant.
\* A rejected request returns at once.
Call(p) ==
    /\ pc[p] = "idle"
    /\ \E r \in Requests(p) :
        /\ replay' = [replay EXCEPT ![p] = KeyCommitted(r.key)]
        /\ IF ValidateRequest(r) = "none"
           THEN /\ req' = [req EXCEPT ![p] = r]
                /\ pc' = [pc EXCEPT ![p] = "probe"]
                /\ res' = res
           ELSE /\ req' = [req EXCEPT ![p] = r]
                /\ pc' = [pc EXCEPT ![p] = "done"]
                /\ res' = [res EXCEPT ![p] = [err |-> ValidateRequest(r), id |-> 0]]
    /\ UNCHANGED <<fixedVars, dbVars, nextSeq, txVars, localVars, log>>

\* validator.Struct in the HTTP handlers: `required,dgt=0` on every amount
\* and `min=2,dive` on the entries of a double entry.
HandlerValid(r) ==
    /\ r.kind = "double" => Len(r.entries) >= 2
    /\ \A i \in 1..Len(r.entries) : r.entries[i].amount > 0

\* A request that arrives over HTTP and fails the handler's validation is
\* answered 400 before the service is called.
HandlerReject(p) ==
    /\ pc[p] = "idle"
    /\ \E r \in Requests(p) :
        /\ ~HandlerValid(r)
        /\ req' = [req EXCEPT ![p] = r]
        /\ replay' = [replay EXCEPT ![p] = KeyCommitted(r.key)]
    /\ pc' = [pc EXCEPT ![p] = "done"]
    /\ res' = [res EXCEPT ![p] = [err |-> "ValidationFailed", id |-> 0]]
    /\ UNCHANGED <<fixedVars, dbVars, nextSeq, txVars, localVars, log>>

\* "Check idempotency": the probe runs on the pool, outside the transaction.
Probe(p) ==
    /\ pc[p] = "probe"
    /\ IF GetTransactionByIdempotencyKey(req[p].key) # {}
       THEN /\ pc' = [pc EXCEPT ![p] = "done"]
            /\ \E t \in GetTransactionByIdempotencyKey(req[p].key) :
                   res' = [res EXCEPT ![p] = [err |-> "none", id |-> t.id]]
            /\ idx' = idx
       ELSE /\ pc' = [pc EXCEPT ![p] = "resolve"]
            /\ idx' = [idx EXCEPT ![p] = 1]
            /\ res' = res
    /\ UNCHANGED <<fixedVars, dbVars, nextSeq, txVars, req, balRead, oldBal, changes, replay, log>>

\* db.Begin (with the first lookup) and GetAccountByCode for each entry.
Resolve(p) ==
    /\ pc[p] = "resolve"
    /\ IF ~AccountActive(Entry(p).code)
       THEN ReturnError(p, "AccountNotFound")
       ELSE /\ log' = IF idx[p] = 1 THEN Append(log, [op |-> "begin", tx |-> p]) ELSE log
            /\ IF idx[p] < Len(req[p].entries)
               THEN /\ idx' = [idx EXCEPT ![p] = idx[p] + 1]
                    /\ pc' = pc
               ELSE /\ idx' = [idx EXCEPT ![p] = 1]
                    /\ pc' = [pc EXCEPT ![p] = "createTx"]
            /\ UNCHANGED <<fixedVars, dbVars, nextSeq, txVars, req, res, balRead, oldBal,
                           changes, replay>>

\* CreateTransaction: INSERT INTO transactions, status 'pending' by default,
\* under UNIQUE(idempotency_key).
CreateTransaction(p) ==
    /\ pc[p] = "createTx"
    /\ ~KeyInDoubt(p, req[p].key)
    /\ IF KeyCommitted(req[p].key)
       THEN ReturnError(p, "DuplicateKey")
       ELSE /\ wTx' = [wTx EXCEPT ![p] =
                          [exists |-> TRUE, key |-> req[p].key, status |-> "pending"]]
            /\ pc' = [pc EXCEPT ![p] = AfterCreateTransaction(p)]
            /\ UNCHANGED <<fixedVars, dbVars, nextSeq, wLines, wBal, wEvents, lockedBy, req,
                           res, localVars, replay, log>>

\* A table that accepts any amount.
NoAmountCheck(amount) == TRUE

\* transaction_lines.amount: NUMERIC(20,4) NOT NULL CHECK (amount > 0).
LineAmountCheck(amount) == amount > 0

\* CreateTransactionLine for the current entry.
CreateTransactionLine(p) ==
    /\ pc[p] = "line"
    /\ IF ~LineAmountCheck(Entry(p).amount)
       THEN ReturnError(p, "CheckViolation")
       ELSE /\ wLines' = [wLines EXCEPT ![p] = Append(@,
                             [tx |-> p, n |-> idx[p], code |-> Entry(p).code,
                              side |-> Entry(p).side, amount |-> Entry(p).amount,
                              currency |-> Entry(p).currency])]
            /\ pc' = [pc EXCEPT ![p] = AfterCreateLine(p)]
            /\ UNCHANGED <<fixedVars, dbVars, nextSeq, wTx, wBal, wEvents, lockedBy, req,
                           res, localVars, replay, log>>

\* "Get old balance for event": GetAccountBalanceForUpdate in the caller.
GetOldBalance(p) ==
    /\ pc[p] = "oldBal"
    /\ ~RowLockWait(p, Entry(p).code)
    /\ LET row == GetAccountBalanceForUpdate(p, Entry(p).code, Entry(p).currency) IN
        /\ oldBal' = [oldBal EXCEPT ![p] = IF row.exists THEN row.balance ELSE 0]
        /\ lockedBy' = SelectForUpdateLock(p, Entry(p).code, row.exists)
    /\ pc' = [pc EXCEPT ![p] = AfterOldBalance(p)]
    /\ UNCHANGED <<fixedVars, dbVars, nextSeq, wTx, wLines, wBal, wEvents, req, res, idx,
                   balRead, changes, replay, log>>

\* updateAccountBalance, first statement: GetAccountBalanceForUpdate.
UabGet(p) ==
    /\ pc[p] = "uabGet"
    /\ ~RowLockWait(p, Entry(p).code)
    /\ LET row == GetAccountBalanceForUpdate(p, Entry(p).code, Entry(p).currency) IN
        /\ balRead' = [balRead EXCEPT ![p] = row]
        /\ lockedBy' = SelectForUpdateLock(p, Entry(p).code, row.exists)
        /\ pc' = [pc EXCEPT ![p] = IF row.exists THEN "uabUpdate" ELSE "uabCreate"]
    /\ UNCHANGED <<fixedVars, dbVars, nextSeq, wTx, wLines, wBal, wEvents, req, res, idx,
                   oldBal, changes, replay, log>>

\* updateAccountBalance, "Create balance if it doesn't exist": the insert
\* runs under the primary key account_id.
UabCreate(p) ==
    /\ pc[p] = "uabCreate"
    /\ ~BalanceInDoubt(p, Entry(p).code)
    /\ IF VisibleRow(p, Entry(p).code).exists
       THEN ReturnError(p, "BalanceExists")
       ELSE /\ wBal' = [wBal EXCEPT ![p][Entry(p).code] =
                           CreateAccountBalanceRow(Entry(p).currency, 0)]
            /\ pc' = [pc EXCEPT ![p] = "uabReGet"]
            /\ UNCHANGED <<fixedVars, dbVars, nextSeq, wTx, wLines, wEvents, lockedBy, req,
                           res, localVars, replay, log>>

\* updateAccountBalance, "Retry getting balance".
UabReGet(p) ==
    /\ pc[p] = "uabReGet"
    /\ LET row == GetAccountBalanceForUpdate(p, Entry(p).code, Entry(p).currency) IN
        IF ~row.exists
        THEN ReturnError(p, "BalanceNotFound")
        ELSE /\ balRead' = [balRead EXCEPT ![p] = row]
             /\ lockedBy' = SelectForUpdateLock(p, Entry(p).code, row.exists)
             /\ pc' = [pc EXCEPT ![p] = "uabUpdate"]
             /\ UNCHANGED <<fixedVars, dbVars, nextSeq, wTx, wLines, wBal, wEvents, req, res,
                            idx, oldBal, changes, replay, log>>

\* updateAccountBalance, last statement: UpdateAccountBalance conditioned on
\* the version read, then the caller's own newBalance for the event.
UabUpdate(p) ==
    /\ pc[p] = "uabUpdate"
    /\ ~RowLockWait(p, Entry(p).code)
    /\ LET e == Entry(p)
           row == VisibleRow(p, e.code)
           written == newBalanceOf(balRead[p].balance, e.amount, e.side, AccountType(e.code))
       IN
        IF ~UpdateAccountBalanceMatches(row, e.currency, balRead[p].version)
        THEN ReturnError(p, "VersionConflict")
        ELSE /\ wBal' = [wBal EXCEPT ![p][e.code] = UpdateAccountBalanceRow(row, written)]
             /\ lockedBy' = IF balances[e.code].exists
                            THEN [lockedBy EXCEPT ![e.code] = p] ELSE lockedBy
             /\ changes' = IF rev = "typed"
                           THEN [changes EXCEPT ![p][e.code] =
                                    [set |-> TRUE, old |-> oldBal[p],
                                     new |-> calculateNewBalance(oldBal[p], e.amount,
                                                 e.side, AccountType(e.code)),
                                     currency |-> e.currency]]
                           ELSE changes
             /\ IF idx[p] < Len(req[p].entries)
                THEN /\ idx' = [idx EXCEPT ![p] = idx[p] + 1]
                     /\ pc' = [pc EXCEPT ![p] = NextEntry(p)]
                ELSE /\ idx' = idx
                     /\ pc' = [pc EXCEPT ![p] = "status"]
             /\ UNCHANGED <<fixedVars, dbVars, nextSeq, wTx, wLines, wEvents, req, res,
                            balRead, oldBal, replay, log>>

\* UpdateTransactionStatus: "Mark transaction as posted".
UpdateTransactionStatus(p) ==
    /\ pc[p] = "status"
    /\ wTx' = [wTx EXCEPT ![p].status = "posted"]
    /\ pc' = [pc EXCEPT ![p] = AfterStatus(p)]
    /\ UNCHANGED <<fixedVars, dbVars, nextSeq, wLines, wBal, wEvents, lockedBy, req, res,
                   localVars, replay, log>>

\* CreateEvent through the pool instead of qtx: the row is committed at once.
CreateEventOnPool(p, type, code, prev, new) ==
    /\ events' = events \cup {[seq |-> nextSeq, type |-> type, tx |-> p, code |-> code,
                                prev |-> prev, new |-> new, change |-> new - prev,
                                version |-> 1]}
    /\ nextSeq' = nextSeq + 1
    /\ wEvents' = wEvents

\* CreateEvent through qtx: the row is part of the open transaction; its
\* sequence_number is drawn from the BIGSERIAL sequence when it is inserted.
CreateEvent(p, type, code, prev, new) ==
    /\ wEvents' = [wEvents EXCEPT ![p] = Append(@,
                      [seq |-> nextSeq, type |-> type, tx |-> p, code |-> code,
                       prev |-> prev, new |-> new, change |-> new - prev,
                                version |-> 1])]
    /\ nextSeq' = nextSeq + 1
    /\ events' = events

PublishTransactionPosted(p) ==
    /\ pc[p] = "pubTx"
    /\ CreateEvent(p, "transaction.posted", "", 0, 0)
    /\ pc' = [pc EXCEPT ![p] = "pubBal"]
    /\ UNCHANGED <<fixedVars, transactions, lines, balances, wTx, wLines, wBal, lockedBy, req,
                   res, localVars, replay, log>>

\* PublishBalanceUpdated for one entry of balanceChanges; Go ranges over the
\* map in no fixed order.
PublishBalanceUpdated(p) ==
    /\ pc[p] = "pubBal"
    /\ \E c \in Codes :
        /\ changes[p][c].set
        /\ CreateEvent(p, "balance.updated", c, changes[p][c].old, changes[p][c].new)
        /\ changes' = [changes EXCEPT ![p][c] = NoChange]
        /\ pc' = [pc EXCEPT ![p] =
                     IF \E d \in Codes \ {c} : changes[p][d].set THEN "pubBal" ELSE "commit"]
    /\ UNCHANGED <<fixedVars, transactions, lines, balances, wTx, wLines, wBal, lockedBy, req,
                   res, idx, balRead, oldBal, replay, log>>

Range(s) == {s[i] : i \in 1..Len(s)}

\* tx.Commit: the write set becomes visible at once, the locks are released,
\* and the call returns the posted transaction.
Commit(p) ==
    /\ pc[p] = "commit"
    /\ transactions' = transactions \cup
                          {[id |-> p, key |-> wTx[p].key, status |-> wTx[p].status]}
    /\ lines' = lines \cup Range(wLines[p])
    /\ balances' = [c \in Codes |-> IF wBal[p][c].exists THEN wBal[p][c] ELSE balances[c]]
    /\ events' = events \cup Range(wEvents[p])
    /\ Rollback(p)
    /\ ClearLocals(p)
    /\ pc' = [pc EXCEPT ![p] = "done"]
    /\ res' = [res EXCEPT ![p] = [err |-> "none", id |-> p]]
    /\ log' = Append(log, [op |-> "commit", tx |-> p])
    /\ UNCHANGED <<fixedVars, nextSeq, req, replay>>

\* A store call fails, or the request's context is cancelled, before commit.
Fail(p) ==
    /\ pc[p] \notin {"idle", "done"}
    /\ ReturnError(p, "StoreError")

\* The transactions p waits for at its current statement.
WaitsFor(p) ==
    IF pc[p] = "createTx"
    THEN {q \in Callers \ {p} : wTx[q].exists /\ wTx[q].key = req[p].key}
    ELSE IF pc[p] \in {"oldBal", "uabGet", "uabUpdate"} /\ RowLockWait(p, Entry(p).code)
         THEN {lockedBy[Entry(p).code]}
         ELSE IF pc[p] = "uabCreate"
              THEN {q \in Callers \ {p} : wBal[q][Entry(p).code].exists
                                            /\ ~balances[Entry(p).code].exists}
              ELSE {}

RECURSIVE WaitClosure(_, _)
WaitClosure(S, n) ==
    IF n = 0 THEN S
    ELSE WaitClosure(S \cup UNION {WaitsFor(q) : q \in S}, n - 1)

\* PostgreSQL's deadlock detector aborts a transaction of a wait cycle.
DeadlockVictim(p) ==
    /\ WaitsFor(p) # {}
    /\ p \in WaitClosure(WaitsFor(p), NumCallers)
    /\ ReturnError(p, "Deadlock")

Next ==
    \E p \in Callers :
        \/ Call(p)
        \/ HandlerReject(p)
        \/ Probe(p)
        \/ Resolve(p)
        \/ CreateTransaction(p)
        \/ CreateTransactionLine(p)
        \/ GetOldBalance(p)
        \/ UabGet(p)
        \/ UabCreate(p)
        \/ UabReGet(p)
        \/ UabUpdate(p)
        \/ UpdateTransactionStatus(p)
        \/ PublishTransactionPosted(p)
        \/ PublishBalanceUpdated(p)
        \/ Commit(p)
        \/ Fail(p)
        \/ DeadlockVictim(p)

Spec == Init /\ [][Next]_vars

\* ------------------------------------------------------------------ claims
LinesOn(code, currency) == {l \in lines : l.code = code /\ l.currency = currency}
LinesOf(id) == {l \in lines : l.tx = id}
EventsOf(id) == {e \in events : e.tx = id}
RowsOf(id) == {t \in transactions : t.id = id}

RECURSIVE SignedSum(_)
SignedSum(S) ==
    IF S = {} THEN 0
    ELSE LET l == CHOOSE x \in S : TRUE IN
         calculateNewBalance(0, l.amount, l.side, AccountType(l.code)) + SignedSum(S \ {l})

RECURSIVE AppliedSum(_)
AppliedSum(S) ==
    IF S = {} THEN 0
    ELSE LET l == CHOOSE x \in S : TRUE IN
         newBalanceOf(0, l.amount, l.side, AccountType(l.code)) + AppliedSum(S \ {l})

RECURSIVE AmountSum(_)
AmountSum(S) ==
    IF S = {} THEN 0
    ELSE LET l == CHOOSE x \in S : TRUE IN l.amount + AmountSum(S \ {l})

StoredBalance(code, currency) ==
    IF balances[code].exists /\ balances[code].currency = currency
    THEN balances[code].balance ELSE 0

Committed(p) == RowsOf(p) # {}
Returned(p) == pc[p] = "done"
ValidationErrors == {"EmptyTransactionLines", "UnbalancedTransaction", "InvalidCurrency"}

\* C1: for every (account, currency) the committed balance is the sum, over
\* the committed lines of that account and currency, of the type-aware signed
\* amount (+ for a debit on asset/expense and a credit on
\* liability/equity/revenue, - otherwise), starting from 0.
C1_BalanceIsSignedSum ==
    \A c \in Codes, cur \in Currencies :
        StoredBalance(c, cur) = SignedSum(LinesOn(c, cur))

\* C2 as stated: every posted transaction, simple or double entry, has equal
\* debit and credit totals.
C2_EveryPostedBalanced ==
    \A t \in transactions :
        t.status = "posted" =>
            AmountSum({l \in LinesOf(t.id) : l.side = "debit"})
                = AmountSum({l \in LinesOf(t.id) : l.side = "credit"})

\* C2 amended: every posted transaction created by CreateDoubleEntryTransaction
\* has equal debit and credit totals.
C2_DoubleEntryPostedBalanced ==
    \A t \in transactions :
        (t.status = "posted" /\ req[t.id].kind = "double") =>
            AmountSum({l \in LinesOf(t.id) : l.side = "debit"})
                = AmountSum({l \in LinesOf(t.id) : l.side = "credit"})

C2_Witness ==
    \E t \in transactions :
        /\ t.status = "posted"
        /\ req[t.id].kind = "double"
        /\ \E l \in LinesOf(t.id) : l.side = "debit"
        /\ \E l \in LinesOf(t.id) : l.side = "credit"

C4_LoserReturnsWinner ==
    \A p \in Callers : \A q \in Callers \ {p} :
        (/\ Returned(p) /\ Returned(q)
         /\ req[p].key = req[q].key
         /\ res[q].err = "none"
         /\ res[p].err \notin ValidationErrors \cup {"StoreError"}) =>
            res[p] = res[q]

\* The lines a posting of p's request inserts.
EntryLines(p) ==
    {[tx |-> p, n |-> i, code |-> req[p].entries[i].code, side |-> req[p].entries[i].side,
      amount |-> req[p].entries[i].amount, currency |-> req[p].entries[i].currency] :
        i \in 1..Len(req[p].entries)}

EntryCodes(p) == {req[p].entries[i].code : i \in 1..Len(req[p].entries)}

\* The events the built revision appends for a posting of p's request.
PublishedCount(p) == IF rev = "typed" THEN 1 + Cardinality(EntryCodes(p)) ELSE 0

Absent(p) == RowsOf(p) = {} /\ LinesOf(p) = {} /\ EventsOf(p) = {}

Complete(p) ==
    /\ RowsOf(p) = {[id |-> p, key |-> req[p].key, status |-> "posted"]}
    /\ LinesOf(p) = EntryLines(p)
    /\ Cardinality(EventsOf(p)) = PublishedCount(p)

\* The committed balance rows are exactly the effect of the committed lines.
BalancesFollowLines ==
    \A c \in Codes :
        /\ balances[c].exists <=>
               (InitialBalanceRow(c).exists \/ \E l \in lines : l.code = c)
        /\ balances[c].exists =>
               /\ balances[c].balance = AppliedSum(LinesOn(c, balances[c].currency))
               /\ balances[c].version = 1 + Cardinality(LinesOn(c, balances[c].currency))

\* C5: in every committed state each posting is either wholly present (its
\* transaction row with status posted, every line, every event it appends,
\* and the balance effect of every line) or wholly absent; a call that
\* returns an error, or has not committed yet, is absent.
C5_AllOrNothing ==
    /\ BalancesFollowLines
    /\ \A p \in Callers :
        /\ Absent(p) \/ Complete(p)
        /\ ~(Returned(p) /\ res[p] = [err |-> "none", id |-> p]) => Absent(p)
        /\ (Returned(p) /\ res[p] = [err |-> "none", id |-> p]) => Complete(p)

C5_Witness ==
    /\ \A p \in Callers : wEvents[p] = <<>>
    /\ nextSeq - 1 > Cardinality(events)
    /\ \E p \in Callers : Returned(p) /\ res[p].err = "StoreError" /\ Absent(p)
    /\ \E q \in Callers : Complete(q) /\ req[q].kind = "double"

Idx(op, p) ==
    IF \E i \in 1..Len(log) : log[i] = [op |-> op, tx |-> p]
    THEN CHOOSE i \in 1..Len(log) : log[i] = [op |-> op, tx |-> p]
    ELSE 0
BeginIdx(p) == Idx("begin", p)
CommitIdx(p) == Idx("commit", p)

\* Both database transactions were open at the same time, and both committed.
Overlap(p, q) ==
    /\ CommitIdx(p) > 0 /\ CommitIdx(q) > 0
    /\ BeginIdx(p) < CommitIdx(q) /\ BeginIdx(q) < CommitIdx(p)

PostingsOn(code, currency) == {l.tx : l \in LinesOn(code, currency)}

\* C7: once postings with distinct keys touching an (account, currency) have
\* committed, its balance is the sum of their type-aware signed amounts and
\* its version has advanced by exactly the number of those postings.
C7_NoLostUpdate ==
    \A c \in Codes :
        balances[c].exists =>
            /\ balances[c].balance = SignedSum(LinesOn(c, balances[c].currency))
            /\ balances[c].version - CreateAccountBalanceRow("NGN", 0).version
                   = Cardinality(PostingsOn(c, balances[c].currency))

C9_EventsPerPosting ==
    /\ \A t \in transactions :
        t.status = "posted" =>
            /\ Cardinality({e \in EventsOf(t.id) : e.type = "transaction.posted"}) = 1
            /\ \A l \in LinesOf(t.id) :
                   Cardinality({e \in EventsOf(t.id) :
                                   e.type = "balance.updated" /\ e.code = l.code}) = 1
    /\ \A e \in events :
        /\ \E t \in transactions : t.id = e.tx /\ t.status = "posted"
        /\ e.type = "balance.updated" => \E l \in LinesOf(e.tx) : l.code = e.code

\* C10: sequence numbers are unique, and when posting A commits before
\* posting B every event of A has a smaller sequence number than every event
\* of B.
C10_SequenceRespectsCommitOrder ==
    \A e1 \in events : \A e2 \in events :
        /\ (e1 # e2) => (e1.seq # e2.seq)
        /\ (CommitIdx(e1.tx) < CommitIdx(e2.tx)) => (e1.seq < e2.seq)

SeqsOf(id) == {e.seq : e \in EventsOf(id)}

\* C11: the events one posting appended carry consecutive sequence numbers,
\* transaction.posted first, and no event of another posting is numbered
\* between them.
C11_ConsecutiveSequence ==
    \A t \in transactions :
        EventsOf(t.id) # {} =>
            /\ \A n \in SeqsOf(t.id) :
                   (n + 1 \in SeqsOf(t.id)) \/ (\A m \in SeqsOf(t.id) : m <= n)
            /\ \A e \in EventsOf(t.id) : \A f \in EventsOf(t.id) :
                   (e.type = "transaction.posted" /\ f.type = "balance.updated")
                       => e.seq < f.seq
            /\ \A f \in events :
                   (\E e1 \in EventsOf(t.id) : \E e2 \in EventsOf(t.id) :
                        e1.seq < f.seq /\ f.seq < e2.seq) => f.tx = t.id

\* The call of p has opened no database transaction and left nothing behind.
Untouched(p) ==
    /\ Absent(p)
    /\ BeginIdx(p) = 0
    /\ ~wTx[p].exists /\ wLines[p] = <<>> /\ wEvents[p] = <<>>
    /\ \A c \in Codes : ~wBal[p][c].exists /\ lockedBy[c] # p

\* C12: a CreateDoubleEntryTransaction request of two or more lines whose
\* debit total differs from its credit total returns UnbalancedTransaction
\* and persists nothing: it never opens a database transaction, so it leaves
\* no transaction row, line, balance row or event.
C12_UnbalancedRejected ==
    \A p \in Callers :
        (/\ pc[p] # "idle"
         /\ req[p].kind = "double" /\ Len(req[p].entries) >= 2
         /\ debitTotal(req[p].entries) # creditTotal(req[p].entries)) =>
            /\ Returned(p)
            /\ res[p] = [err |-> "UnbalancedTransaction", id |-> 0]
            /\ Untouched(p)

C12_Witness ==
    \E p \in Callers :
        /\ Returned(p) /\ res[p].err = "UnbalancedTransaction"
        /\ Len(req[p].entries) = 2
        /\ req[p].entries[1].side = req[p].entries[2].side
        /\ \E q \in Callers \ {p} : Complete(q)

\* C13: the idempotency probe comes first: a CreateDoubleEntryTransaction
\* call whose key was already committed when it started returns the existing
\* transaction whatever lines it carries, and no call ever gets a duplicate
\* key error.
C13_ProbeBeforeValidation ==
    /\ \A p \in Callers :
        (replay[p] /\ req[p].kind = "double" /\ Returned(p) /\ res[p].err # "StoreError") =>
            /\ res[p].err = "none"
            /\ \E t \in transactions : t.key = req[p].key /\ t.id = res[p].id
    /\ \A p \in Callers : res[p].err # "DuplicateKey"

\* C14: at most one committed transaction row exists per idempotency key.
C14_OneRowPerKey ==
    \A t1 \in transactions : \A t2 \in transactions :
        t1.key = t2.key => t1 = t2

C14_Witness ==
    \E p \in Callers : \E q \in Callers \ {p} :
        /\ req[p].key = req[q].key
        /\ BeginIdx(p) > 0 /\ BeginIdx(q) > 0
        /\ BeginIdx(q) < CommitIdx(p)
        /\ Returned(q) /\ res[q].err = "DuplicateKey"
        /\ Cardinality({t \in transactions : t.key = req[p].key}) = 1

\* The accounts whose balance row was created by the one posting that has
\* touched them so far.
FirstTouched ==
    {c \in Codes : /\ ~InitialBalanceRow(c).exists /\ balances[c].exists
                   /\ Cardinality(LinesOn(c, balances[c].currency)) = 1}

CalcInputs ==
    [b : (0 - MaxCalc)..MaxCalc, a : 1..MaxCalc, side : Sides, type : AccountTypes,
     done : {FALSE}, out : {0}]

CalcInit ==
    /\ rev = "typed"
    /\ transactions = {} /\ lines = {} /\ events = {} /\ nextSeq = 1
    /\ balances = [c \in Codes |-> InitialBalanceRow(c)]
    /\ wTx = [p \in Callers |-> NoTx]
    /\ wLines = [p \in Callers |-> <<>>]
    /\ wBal = [p \in Callers |-> [c \in Codes |-> NoRow]]
    /\ wEvents = [p \in Callers |-> <<>>]
    /\ lockedBy = [c \in Codes |-> 0]
    /\ pc = [p \in Callers |-> "idle"]
    /\ req = [p \in Callers |-> NoReq]
    /\ res = [p \in Callers |-> NoRes]
    /\ idx = [p \in Callers |-> 0]
    /\ balRead = [p \in Callers |-> NoRow]
    /\ oldBal = [p \in Callers |-> 0]
    /\ changes = [p \in Callers |-> [c \in Codes |-> NoChange]]
    /\ replay = [p \in Callers |-> FALSE]
    /\ log = <<>>
    /\ SidesIdle
    /\ calc \in CalcInputs
    /\ clients = ValidClients
    /\ NoWebhooks

CalcApply ==
    /\ ~calc.done
    /\ calc' = [calc EXCEPT !.done = TRUE,
                            !.out = calculateNewBalance(calc.b, calc.a, calc.side, calc.type)]
    /\ UNCHANGED <<rev, clients, whVars, sideVars, dbVars, nextSeq, txVars, pc, req, res,
                   localVars, replay, log>>

CalcNext == CalcApply

SpecCalc == CalcInit /\ [][CalcNext]_vars

\* ------------------------------------------------ postings of careless clients
CarelessInit ==
    /\ rev \in Revisions
    /\ transactions = {} /\ lines = {} /\ events = {} /\ nextSeq = 1
    /\ balances = [c \in Codes |-> InitialBalanceRow(c)]
    /\ wTx = [p \in Callers |-> NoTx]
    /\ wLines = [p \in Callers |-> <<>>]
    /\ wBal = [p \in Callers |-> [c \in Codes |-> NoRow]]
    /\ wEvents = [p \in Callers |-> <<>>]
    /\ lockedBy = [c \in Codes |-> 0]
    /\ pc = [p \in Callers |-> "idle"]
    /\ req = [p \in Callers |-> NoReq]
    /\ res = [p \in Callers |-> NoRes]
    /\ idx = [p \in Callers |-> 0]
    /\ balRead = [p \in Callers |-> NoRow]
    /\ oldBal = [p \in Callers |-> 0]
    /\ changes = [p \in Callers |-> [c \in Codes |-> NoChange]]
    /\ replay = [p \in Callers |-> FALSE]
    /\ log = <<>>
    /\ SidesIdle
    /\ calc = NoCalc
    /\ clients = CarelessClients
    /\ NoWebhooks

SpecCareless == CarelessInit /\ [][Next]_vars

\* --------------------------------------- postings that name stray accounts
StrayInit ==
    /\ rev \in Revisions
    /\ transactions = {} /\ lines = {} /\ events = {} /\ nextSeq = 1
    /\ balances = [c \in Codes |-> InitialBalanceRow(c)]
    /\ wTx = [p \in Callers |-> NoTx]
    /\ wLines = [p \in Callers |-> <<>>]
    /\ wBal = [p \in Callers |-> [c \in Codes |-> NoRow]]
    /\ wEvents = [p \in Callers |-> <<>>]
    /\ lockedBy = [c \in Codes |-> 0]
    /\ pc = [p \in Callers |-> "idle"]
    /\ req = [p \in Callers |-> NoReq]
    /\ res = [p \in Callers |-> NoRes]
    /\ idx = [p \in Callers |-> 0]
    /\ balRead = [p \in Callers |-> NoRow]
    /\ oldBal = [p \in Callers |-> 0]
    /\ changes = [p \in Callers |-> [c \in Codes |-> NoChange]]
    /\ replay = [p \in Callers |-> FALSE]
    /\ log = <<>>
    /\ SidesIdle
    /\ calc = NoCalc
    /\ clients = StrayClients
    /\ NoWebhooks

SpecStray == StrayInit /\ [][Next]_vars

\* C16: for any balance b and amount a, calculateNewBalance gives b+a for a
\* debit and b-a for a credit on asset and expense accounts, and b-a for a
\* debit and b+a for a credit on liability, equity and revenue accounts.
C16_SignedBalanceRule ==
    calc.done =>
        /\ (calc.type \in {"asset", "expense"} /\ calc.side = "debit")
               => calc.out = calc.b + calc.a
        /\ (calc.type \in {"asset", "expense"} /\ calc.side = "credit")
               => calc.out = calc.b - calc.a
        /\ (calc.type \in {"liability", "equity", "revenue"} /\ calc.side = "debit")
               => calc.out = calc.b - calc.a
        /\ (calc.type \in {"liability", "equity", "revenue"} /\ calc.side = "credit")
               => calc.out = calc.b + calc.a

C16_Witness ==
    /\ calc.done
    /\ calc.type = "revenue" /\ calc.side = "credit"
    /\ calc.b < 0 /\ calc.a = MaxCalc /\ calc.out = calc.b + MaxCalc

\* C17: all balance arithmetic goes through the type-aware rule: whenever
\* updateAccountBalance writes a balance, for a simple posting or for a line
\* of a double entry, the value written is calculateNewBalance of the value
\* read, the amount, the side and the account's type.
C17_OneSignedRule ==
    [][\A p \in Callers :
          (pc[p] = "uabUpdate" /\ pc'[p] \notin {"uabUpdate", "done"}) =>
              wBal'[p][Entry(p).code].balance =
                  calculateNewBalance(balRead[p].balance, Entry(p).amount,
                                      Entry(p).side, AccountType(Entry(p).code))]_vars

\* The committed balance of an account, 0 when it has no row.
CommittedBalance(c) == IF balances[c].exists THEN balances[c].balance ELSE 0

\* C18: when a posting commits, each of its balance.updated events carries
\* as previous balance the committed balance of the account before the
\* posting, as new balance the committed balance after it, and as change
\* their difference, also when the account appears in several lines.
C18_BalanceEventPayload ==
    [][\A p \in Callers :
          (pc[p] = "commit" /\ pc'[p] = "done" /\ res'[p].err = "none") =>
              \A i \in 1..Len(wEvents[p]) :
                  wEvents[p][i].type = "balance.updated" =>
                      /\ wEvents[p][i].prev = CommittedBalance(wEvents[p][i].code)
                      /\ wEvents[p][i].new = balances'[wEvents[p][i].code].balance
                      /\ wEvents[p][i].change = wEvents[p][i].new - wEvents[p][i].prev]_vars

BalanceEvents(c) == {e \in events : e.type = "balance.updated" /\ e.code = c}

\* C19: a balance.updated event carries the version of the balance row after
\* the update it reports: the events of successive postings on an account
\* carry strictly increasing versions, and the event of the last posting on
\* the account carries the row's current version.
C19_EventCarriesRowVersion ==
    \A c \in Codes :
        /\ \A e1 \in BalanceEvents(c) : \A e2 \in BalanceEvents(c) :
               CommitIdx(e1.tx) < CommitIdx(e2.tx) => e1.version < e2.version
        /\ \A e \in BalanceEvents(c) :
               (\A l \in LinesOn(c, balances[c].currency) : CommitIdx(l.tx) <= CommitIdx(e.tx))
                   => e.version = balances[c].version

MixedCurrencies(entries) ==
    \E i \in 1..Len(entries) : \E j \in 1..Len(entries) :
        entries[i].currency # entries[j].currency

\* C20: a CreateDoubleEntryTransaction request of two or more lines whose
\* currencies are not all the same returns InvalidCurrency, whatever its
\* amounts, and persists nothing.
C20_MixedCurrencyRejected ==
    \A p \in Callers :
        (/\ pc[p] # "idle"
         /\ req[p].kind = "double" /\ Len(req[p].entries) >= 2
         /\ MixedCurrencies(req[p].entries)) =>
            /\ Returned(p)
            /\ res[p] = [err |-> "InvalidCurrency", id |-> 0]
            /\ Untouched(p)


\* ------------------------------------------------------------ C21 and C22
NonPositive(p) == \E i \in 1..Len(req[p].entries) : req[p].entries[i].amount <= 0

NoWriteSet(p) ==
    /\ ~wTx[p].exists /\ wLines[p] = <<>> /\ wEvents[p] = <<>>
    /\ \A c \in Codes : ~wBal[p][c].exists /\ lockedBy[c] # p

\* C21: a posting request with a line amount that is zero or negative never
\* posts: no transaction row, line or event of it is ever committed, once it
\* has returned it holds no write set, the committed balances are still the
\* effect of the committed lines only, and it returns an error (the only
\* other answer is the earlier transaction of its idempotency key). Every
\* committed line has amount > 0.
C21_NonPositiveAmountRejected ==
    /\ \A l \in lines : l.amount > 0
    /\ BalancesFollowLines
    /\ \A p \in Callers :
          NonPositive(p) =>
              /\ Absent(p)
              /\ Returned(p) =>
                    /\ NoWriteSet(p)
                    /\ res[p].id # p
                    /\ res[p].err = "none" => KeyCommitted(req[p].key)

\* A request with a non-positive amount reached the INSERT of its line, was
\* refused there and rolled back, while the other caller's posting stands.
C21_Witness ==
    \E p \in Callers : \E q \in Callers \ {p} :
        /\ NonPositive(p) /\ Returned(p) /\ res[p].err = "CheckViolation"
        /\ BeginIdx(p) > 0 /\ Absent(p)
        /\ Returned(q) /\ res[q] = [err |-> "none", id |-> q] /\ Complete(q)

NamesInvalidAccount(p) == \E c \in EntryCodes(p) : ~AccountActive(c)

\* C22: a posting that names an unknown or inactive account, passes the
\* request validations and whose key is not yet committed, returns
\* InvalidAccount (unless the store itself failed) and persists nothing.
C22_InvalidAccountReturned ==
    \A p \in Callers :
        (/\ Returned(p) /\ NamesInvalidAccount(p)
         /\ HandlerValid(req[p]) /\ ValidateRequest(req[p]) = "none"
         /\ ~KeyCommitted(req[p].key)
         /\ res[p].err # "StoreError")
        => /\ res[p].err = "InvalidAccount"
           /\ Absent(p) /\ NoWriteSet(p)

\* The part of C22 that the code keeps: such a posting fails and persists
\* nothing.
C22_FailsAndPersistsNothing ==
    \A p \in Callers :
        (/\ Returned(p) /\ NamesInvalidAccount(p)
         /\ HandlerValid(req[p]) /\ ValidateRequest(req[p]) = "none"
         /\ ~KeyCommitted(req[p].key))
        => /\ res[p].err # "none"
           /\ Absent(p) /\ NoWriteSet(p)


\* ------------------------------------------------------- webhook deliveries
MaxDeliveries == 2
MaxNow == 6
TickMinutes == 2
MaxConfigures == 1
DefaultMaxAttempts == 3

SupportedEventTypes ==
    <<"transaction.posted", "balance.updated", "account.created", "account.updated">>
EventTypes == Range(SupportedEventTypes) \cup {"webhook.test"}

\* What the endpoint answers: an HTTP status, or 0 for a transport failure.
Statuses == {0, 199, 200, 299, 300}

\* tenants.metadata as a client or ConfigureWebhook may have left it.
Metadata ==
    [url : {"absent", "", "https://a"},
     secret : {"absent", "", "s"},
     events : {NoEvents, [given |-> TRUE, list |-> <<>>],
               [given |-> TRUE, list |-> <<"transaction.posted">>],
               [given |-> TRUE, list |-> <<"balance.updated", "webhook.test">>]},
     enabled : {"absent", "true", "false"}]

\* The metadata of a tenant that subscribed to every supported event.
Subscribed ==
    [url |-> "https://a", secret |-> "s", events |-> NoEvents, enabled |-> "absent"]

\* parseWebhookConfig: url and secret must be non-empty strings; the event
\* list defaults to the supported types and the enabled flag to true.
parseWebhookConfig(metadata) ==
    IF metadata.url \in {"absent", ""} \/ metadata.secret \in {"absent", ""}
    THEN [ok |-> FALSE, WebhookURL |-> "", WebhookSecret |-> "",
          WebhookEvents |-> <<>>, Enabled |-> FALSE]
    ELSE [ok |-> TRUE, WebhookURL |-> metadata.url, WebhookSecret |-> metadata.secret,
          WebhookEvents |-> IF metadata.events.given THEN metadata.events.list
                            ELSE SupportedEventTypes,
          Enabled |-> IF metadata.enabled \in {"true", "false"}
                      THEN metadata.enabled = "true" ELSE TRUE]

\* A subscription that takes every event.
deliverEveryEvent(config, eventType) == TRUE

\* shouldDeliverEvent: the event's type is in the configured list.
shouldDeliverEvent(config, eventType) ==
    \E i \in 1..Len(config.WebhookEvents) : config.WebhookEvents[i] = eventType

\* CreateWebhookDelivery: INSERT with the column defaults of webhook_deliveries.
CreateWebhookDelivery(eventType, url, at) ==
    [event |-> eventType, url |-> url, status |-> Null, attempts |-> 0,
     max |-> DefaultMaxAttempts, next |-> at, delivered |-> Null, failed |-> Null,
     created |-> at]

\* The ledger is idle while the webhook subsystem is looked at.
PostingsIdle ==
    /\ rev = "typed"
    /\ transactions = {} /\ lines = {} /\ events = {} /\ nextSeq = 1
    /\ balances = [c \in Codes |-> InitialBalanceRow(c)]
    /\ wTx = [p \in Callers |-> NoTx]
    /\ wLines = [p \in Callers |-> <<>>]
    /\ wBal = [p \in Callers |-> [c \in Codes |-> NoRow]]
    /\ wEvents = [p \in Callers |-> <<>>]
    /\ lockedBy = [c \in Codes |-> 0]
    /\ pc = [p \in Callers |-> "idle"]
    /\ req = [p \in Callers |-> NoReq]
    /\ res = [p \in Callers |-> NoRes]
    /\ idx = [p \in Callers |-> 0]
    /\ balRead = [p \in Callers |-> NoRow]
    /\ oldBal = [p \in Callers |-> 0]
    /\ changes = [p \in Callers |-> [c \in Codes |-> NoChange]]
    /\ replay = [p \in Callers |-> FALSE]
    /\ log = <<>>
    /\ SidesIdle
    /\ calc = NoCalc
    /\ clients = ValidClients

ledgerVars ==
    <<rev, calc, clients, dbVars, nextSeq, txVars, pc, req, res, localVars, replay, log>>
postingVars == <<ledgerVars, sideVars>>

\* The database clock advances.
Tick ==
    /\ now < MaxNow
    /\ now' = now + TickMinutes
    /\ UNCHANGED <<postingVars, runVars, tenant, deliveries, pass, retry, posts, queued, configures>>

\* QueueWebhookDelivery for an event of the given type.
QueueWebhookDelivery(eventType) ==
    /\ queued.n < MaxDeliveries
    /\ queued' = [n |-> queued.n + 1, type |-> eventType]
    /\ LET config == parseWebhookConfig(tenant) IN
       IF config.ok /\ config.Enabled /\ shouldDeliverEvent(config, eventType)
       THEN /\ deliveries' = Append(deliveries,
                                CreateWebhookDelivery(eventType, config.WebhookURL, now))
            /\ posts' = Append(posts, 0)
       ELSE UNCHANGED <<deliveries, posts>>
    /\ UNCHANGED <<postingVars, runVars, tenant, now, pass, retry, configures>>

\* What ConfigureWebhook may be asked to store.
\* The operator disables the webhooks, moves them to another URL, or drops
\* transaction.posted from the event list.
ConfigureRequests ==
    {[URL |-> "https://a", Secret |-> "s", Events |-> <<"transaction.posted">>,
      Enabled |-> FALSE],
     [URL |-> "https://b", Secret |-> "s", Events |-> <<"transaction.posted">>,
      Enabled |-> TRUE],
     [URL |-> "https://a", Secret |-> "s", Events |-> <<"balance.updated">>,
      Enabled |-> TRUE]}

\* ConfigureWebhook overwrites the four webhook keys of the metadata.
ConfigureWebhook(r) ==
    /\ configures < MaxConfigures
    /\ configures' = configures + 1
    /\ tenant' = [url |-> r.URL, secret |-> r.Secret,
                  events |-> [given |-> TRUE, list |-> r.Events],
                  enabled |-> IF r.Enabled THEN "true" ELSE "false"]
    /\ UNCHANGED <<postingVars, runVars, deliveries, now, pass, retry, posts, queued>>

\* A fetch without its WHERE clause.
AnyRow(row, at) == TRUE

\* WHERE next_retry_at IS NOT NULL AND next_retry_at <= NOW()
\*   AND attempts < max_attempts
PendingRow(row, at) ==
    row.next # Null /\ row.next <= at /\ row.attempts < row.max

\* GetPendingWebhookDeliveries: the results ORDER BY created_at ASC LIMIT
\* may return; rows created at the same instant come in either order.
GetPendingWebhookDeliveries(limit) ==
    LET due == {id \in 1..Len(deliveries) : PendingRow(deliveries[id], now)}
        n == IF Cardinality(due) < limit THEN Cardinality(due) ELSE limit
    IN  {b \in [1..n -> due] :
            /\ \A i \in 1..n : \A j \in 1..n :
                  i < j => /\ b[i] # b[j]
                           /\ deliveries[b[i]].created <= deliveries[b[j]].created
            /\ \A id \in due \ Range(b) : \A i \in 1..n :
                  deliveries[b[i]].created <= deliveries[id].created}

\* ProcessPendingDeliveries / ProcessAllPendingDeliveries: fetch a batch.
Fetch(w) ==
    /\ pass[w].pc \in {"idle", "fetch"}
    /\ ctx = "live"
    /\ \E b \in GetPendingWebhookDeliveries(batchSize) :
          pass' = [pass EXCEPT ![w] =
                      IF Len(b) = 0 THEN NoPass
                      ELSE [pc |-> "deliver",
                            batch |-> [i \in 1..Len(b) |->
                                          [id |-> b[i], row |-> deliveries[b[i]]]],
                            at |-> now, i |-> 1, result |-> Null]]
    /\ UNCHANGED <<postingVars, runVars, tenant, deliveries, now, retry, posts, queued, configures>>

\* The loop over the batch goes to its next row; after the last row the
\* worker waits for its ticker and ProcessAllPendingDeliveries fetches again
\* when the batch was full.
NextDelivery(ps, w) ==
    IF ps.i < Len(ps.batch)
    THEN [ps EXCEPT !.pc = "deliver", !.i = ps.i + 1, !.result = Null]
    ELSE IF w = "all" /\ Len(ps.batch) >= batchSize
         THEN [NoPass EXCEPT !.pc = "fetch"]
         ELSE NoPass

\* An endpoint whose every answer counts as a success.
anyAnswerSucceeds(status) == [Success |-> status > 0, StatusCode |-> status]

\* deliverWebhook: the result for the status the endpoint answered.
deliverWebhook(status) ==
    [Success |-> status >= 200 /\ status < 300, StatusCode |-> status]

\* processDelivery up to the HTTP exchange: the event, the tenant's current
\* configuration, and the POST to config.WebhookURL.
processDelivery(w) ==
    /\ pass[w].pc = "deliver"
    /\ ctx = "live"
    /\ LET delivery == pass[w].batch[pass[w].i]
           config == parseWebhookConfig(tenant)
       IN  IF ~config.ok
           THEN /\ pass' = [pass EXCEPT ![w] = NextDelivery(pass[w], w)]
                /\ posts' = posts
           ELSE /\ posts' = [posts EXCEPT ![delivery.id] = @ + 1]
                /\ \E status \in Statuses :
                      pass' = [pass EXCEPT ![w].pc = "update", ![w].result = status]
    /\ UNCHANGED <<postingVars, runVars, tenant, deliveries, now, retry, queued, configures>>

UpdateWebhookDeliverySuccess(row, status, at) ==
    [row EXCEPT !.status = status, !.attempts = row.attempts + 1,
                !.delivered = at, !.next = Null]

\* A fixed retry delay.
FixedBackoff(attempts) == 2

\* INTERVAL '1 minute' * POWER(2, attempts + 1), in minutes.
Backoff(attempts) == 2 ^ attempts

UpdateWebhookDeliveryFailure(row, status, at) ==
    [row EXCEPT !.status = status, !.attempts = row.attempts + 1,
                !.next = IF row.attempts + 1 >= row.max THEN Null
                         ELSE at + Backoff(row.attempts + 1),
                !.failed = IF row.attempts + 1 >= row.max THEN at ELSE row.failed]

\* processDelivery after the HTTP exchange: the UPDATE of the row, by id.
UpdateDelivery(w) ==
    /\ pass[w].pc = "update"
    /\ ctx = "live"
    /\ LET delivery == pass[w].batch[pass[w].i]
           result == deliverWebhook(pass[w].result)
           row == deliveries[delivery.id]
       IN  deliveries' = [deliveries EXCEPT ![delivery.id] =
                             IF result.Success
                             THEN UpdateWebhookDeliverySuccess(row, result.StatusCode, now)
                             ELSE UpdateWebhookDeliveryFailure(row, result.StatusCode, now)]
    /\ pass' = [pass EXCEPT ![w] = NextDelivery(pass[w], w)]
    /\ UNCHANGED <<postingVars, runVars, tenant, now, retry, posts, queued, configures>>

\* RetryWebhookDelivery up to its checks on the row it read.
RetryWebhookDelivery(id) ==
    /\ retry.pc = "idle"
    /\ id \in 1..Len(deliveries)
    /\ LET delivery == deliveries[id] IN
       retry' = IF delivery.delivered # Null
                THEN [pc |-> "idle", id |-> id, res |-> "delivered"]
                ELSE IF delivery.attempts >= delivery.max
                     THEN [pc |-> "idle", id |-> id, res |-> "exceeded"]
                     ELSE [pc |-> "reset", id |-> id, res |-> ""]
    /\ UNCHANGED <<postingVars, runVars, tenant, deliveries, now, pass, posts, queued, configures>>

\* UPDATE ... SET next_retry_at = NOW(), failed_at = NULL WHERE id = $1
ResetWebhookDeliveryForRetry(row, at) ==
    [row EXCEPT !.next = at, !.failed = Null]

\* RetryWebhookDelivery's reset of the row, by id.
RetryReset ==
    /\ retry.pc = "reset"
    /\ deliveries' = [deliveries EXCEPT ![retry.id] =
                         ResetWebhookDeliveryForRetry(deliveries[retry.id], now)]
    /\ retry' = [retry EXCEPT !.pc = "idle", !.res = "ok"]
    /\ UNCHANGED <<postingVars, runVars, tenant, now, pass, posts, queued, configures>>

\* Queueing under every metadata a tenant may have.
QueueInit ==
    /\ PostingsIdle
    /\ tenant \in Metadata
    /\ deliveries = <<>> /\ posts = <<>> /\ now = 0
    /\ pass = [w \in Passes |-> NoPass]
    /\ retry = NoRetry
    /\ queued = [n |-> 0, type |-> ""]
    /\ configures = 0
    /\ batchSize = WorkerBatchSize /\ ctx = "live"

QueueNext ==
    \/ Tick
    \/ \E eventType \in EventTypes : QueueWebhookDelivery(eventType)

SpecQueue == QueueInit /\ [][QueueNext]_vars

\* Deliveries of a subscribed tenant.
WebhookInit ==
    /\ PostingsIdle
    /\ tenant = Subscribed
    /\ deliveries = <<>> /\ posts = <<>> /\ now = 0
    /\ pass = [w \in Passes |-> NoPass]
    /\ retry = NoRetry
    /\ queued = [n |-> 0, type |-> ""]
    /\ configures = 0
    /\ batchSize = WorkerBatchSize /\ ctx = "live"

\* The background worker alone, with the operator's calls.
WorkerNext ==
    \/ Tick
    \/ QueueWebhookDelivery("transaction.posted")
    \/ \E r \in ConfigureRequests : ConfigureWebhook(r)
    \/ Fetch("worker")
    \/ processDelivery("worker")
    \/ UpdateDelivery("worker")
    \/ RetryWebhookDelivery(1)
    \/ RetryReset

SpecWorker == WebhookInit /\ [][WorkerNext]_vars

\* The worker next to a ProcessAllPendingDeliveries run, within one minute.
WebhookNext ==
    \/ QueueWebhookDelivery("transaction.posted")
    \/ \E w \in Passes : Fetch(w)
    \/ \E w \in Passes : processDelivery(w)
    \/ \E w \in Passes : UpdateDelivery(w)
    \/ RetryWebhookDelivery(1)
    \/ RetryReset

SpecWebhook == WebhookInit /\ [][WebhookNext]_vars


\* ------------------------------------------------------------- C23 .. C30
\* The condition of C23 on the tenant's metadata and the event's type.
Subscribes(metadata, eventType) ==
    /\ metadata.url \notin {"absent", ""}
    /\ metadata.secret \notin {"absent", ""}
    /\ metadata.enabled \in {"absent", "true"}
    /\ IF metadata.events.given
       THEN eventType \in Range(metadata.events.list)
       ELSE eventType \in Range(SupportedEventTypes)

\* C23: a QueueWebhookDelivery call inserts a delivery row if and only if
\* the metadata has a non-empty webhook_url and webhook_secret, webhooks are
\* enabled (flag absent or true) and the event's type is in the configured
\* list (the supported types when no list is given); the row has attempts 0,
\* max_attempts 3, next_retry_at = now, the configured url, and delivered_at
\* and failed_at null. No other row changes.
C23_QueueIffSubscribed ==
    [][queued'.n = queued.n + 1 =>
          IF Subscribes(tenant, queued'.type)
          THEN deliveries' = Append(deliveries,
                   [event |-> queued'.type, url |-> tenant.url, status |-> Null,
                    attempts |-> 0, max |-> 3, next |-> now, delivered |-> Null,
                    failed |-> Null, created |-> now])
          ELSE deliveries' = deliveries]_vars

\* Of two events queued for a tenant that listed one event type, one got a
\* row and the other did not.
C23_Witness ==
    /\ queued.n = 2 /\ Len(deliveries) = 1
    /\ tenant.events.given /\ tenant.enabled = "absent"
    /\ deliveries[1].event = "transaction.posted" /\ deliveries[1].next = now

\* A pass has fetched its batch in this step.
Fetched(w) == pass[w].pc \in {"idle", "fetch"} /\ pass'[w].pc = "deliver"

\* The row was due at the instant: next_retry_at non-null and not later,
\* attempts below max_attempts.
DueAt(row, at) == row.next # Null /\ row.next <= at /\ row.attempts < row.max

\* C24: a pass fetches at most WorkerBatchSize rows, all due when fetched
\* (next_retry_at non-null and <= now, attempts < max_attempts), oldest
\* first: no due row left out is older than a fetched one; and an HTTP
\* request is sent only for the current row of a fetched batch.
C24_AttemptOnlyFetchedDue ==
    [][/\ \A w \in Passes :
             Fetched(w) =>
                LET b == pass'[w].batch IN
                /\ Len(b) <= WorkerBatchSize
                /\ pass'[w].at = now
                /\ \A i \in 1..Len(b) :
                      /\ b[i].row = deliveries[b[i].id]
                      /\ DueAt(b[i].row, now)
                      /\ \A j \in 1..Len(b) :
                            i < j => /\ b[i].id # b[j].id
                                     /\ b[i].row.created <= b[j].row.created
                      /\ \A id \in 1..Len(deliveries) :
                            (DueAt(deliveries[id], now)
                             /\ \A j \in 1..Len(b) : b[j].id # id)
                            => /\ b[i].row.created <= deliveries[id].created
                               /\ Len(b) = WorkerBatchSize
       /\ \A id \in 1..Len(posts) :
             posts'[id] # posts[id] =>
                \E w \in Passes :
                   /\ pass[w].pc = "deliver"
                   /\ pass[w].batch[pass[w].i].id = id
                   /\ DueAt(pass[w].batch[pass[w].i].row, pass[w].at)]_vars

\* The worker fetched the retried first row out of two due rows and sent
\* its request.
C24_Witness ==
    /\ pass["worker"].pc = "update"
    /\ pass["worker"].batch[1].id = 1
    /\ pass["worker"].batch[1].row.attempts = 1
    /\ Len(deliveries) = 2
    /\ DueAt(deliveries[2], pass["worker"].at)

\* A pass has run the UPDATE that ends an attempt in this step.
Updated(w) == pass[w].pc = "update" /\ pass'[w] # pass[w]

AttemptId(w) == pass[w].batch[pass[w].i].id

\* C25: an attempt whose answer has a status in 200..299 increments
\* attempts by 1, sets delivered_at, clears next_retry_at and records the
\* status, and changes nothing else of the row; with any other status, or a
\* transport failure (0), delivered_at is left as it was.
C25_SuccessIff2xx ==
    [][\A w \in Passes :
          Updated(w) =>
             LET row == deliveries[AttemptId(w)]
                 status == pass[w].result
             IN  IF status \in 200..299
                 THEN deliveries'[AttemptId(w)] =
                         [row EXCEPT !.attempts = row.attempts + 1, !.delivered = now,
                                     !.next = Null, !.status = status]
                 ELSE deliveries'[AttemptId(w)].delivered = row.delivered]_vars

\* A row delivered with status 299 at its second attempt.
C25_Witness ==
    \E id \in 1..Len(deliveries) :
        /\ deliveries[id].status = 299 /\ deliveries[id].delivered # Null
        /\ deliveries[id].attempts = 2 /\ deliveries[id].next = Null

\* C26: a failed attempt increments attempts by 1; when the new value
\* reaches max_attempts the row gets failed_at = now and next_retry_at null,
\* otherwise next_retry_at = now + 2^(new attempts) minutes (2 minutes after
\* the first failure, 4 after the second) and failed_at stays; nothing else
\* of the row but the status changes. With the background worker as the only
\* pass no row gets more requests or attempts than max_attempts.
C26_FailureBackoff ==
    /\ [][\A w \in Passes :
             (Updated(w) /\ pass[w].result \notin 200..299) =>
                LET row == deliveries[AttemptId(w)]
                    n == row.attempts + 1
                IN  /\ deliveries'[AttemptId(w)] =
                          [row EXCEPT !.attempts = n,
                                      !.status = pass[w].result,
                                      !.next = IF n >= row.max THEN Null ELSE now + 2 ^ n,
                                      !.failed = IF n >= row.max THEN now ELSE row.failed]
                    /\ n = 1 => deliveries'[AttemptId(w)].next = now + 2
                    /\ n = 2 => deliveries'[AttemptId(w)].next = now + 4
                    /\ n = 3 => /\ deliveries'[AttemptId(w)].next = Null
                                /\ deliveries'[AttemptId(w)].failed = now]_vars
    /\ [](\A id \in 1..Len(deliveries) :
             posts[id] <= deliveries[id].max /\ deliveries[id].attempts <= deliveries[id].max)

\* Without any operator call a row failed three times: at 0, after 2
\* minutes and after 4 more.
C26_Witness ==
    \E id \in 1..Len(deliveries) :
        /\ deliveries[id].attempts = 3 /\ posts[id] = 3
        /\ deliveries[id].failed = deliveries[id].created + 6
        /\ deliveries[id].next = Null /\ deliveries[id].delivered = Null
        /\ retry = NoRetry /\ configures = 0

NonNull(row) ==
    (IF row.delivered # Null THEN 1 ELSE 0) + (IF row.failed # Null THEN 1 ELSE 0)
    + (IF row.next # Null THEN 1 ELSE 0)

\* C27: every delivery row with attempts > 0 has exactly one of
\* delivered_at, failed_at and next_retry_at non-null.
C27_ExactlyOneOutcome ==
    \A id \in 1..Len(deliveries) :
        deliveries[id].attempts > 0 => NonNull(deliveries[id]) = 1

\* C28: every delivery row has attempts <= max_attempts and no more HTTP
\* requests than max_attempts were sent for it.
C28_AttemptsBounded ==
    \A id \in 1..Len(deliveries) :
        /\ deliveries[id].attempts <= deliveries[id].max
        /\ posts[id] <= deliveries[id].max

\* C29: the reset of a manual retry changes a row only if the row is not
\* delivered and has attempts < max_attempts, and then only next_retry_at
\* (= now) and failed_at (null); on a delivered row the call answers with an
\* error and changes nothing.
C29_RetryOnlyUndelivered ==
    [][(retry.pc = "reset" /\ retry'.pc = "idle") =>
          LET row == deliveries[retry.id] IN
          IF row.delivered = Null /\ row.attempts < row.max
          THEN deliveries'[retry.id] = [row EXCEPT !.next = now, !.failed = Null]
          ELSE deliveries' = deliveries /\ retry'.res # "ok"]_vars

\* The tenant's current configuration no longer matches the row.
Mismatch(row) ==
    \/ tenant.enabled = "false"
    \/ tenant.url # row.url
    \/ tenant.events.given /\ row.event \notin Range(tenant.events.list)

\* C30: when a pass processes a row that the tenant's current configuration
\* no longer matches, it sends no HTTP request and goes on to the next row
\* without an UPDATE of the row.
C30_MismatchSkipped ==
    [][\A w \in Passes :
          (/\ pass[w].pc = "deliver" /\ pass'[w] # pass[w]
           /\ Mismatch(deliveries[AttemptId(w)]))
          => /\ posts' = posts
             /\ pass'[w].pc # "update"
             /\ deliveries' = deliveries]_vars

\* ------------------------------------------------------------ claims C31..C40
\* C37: a simple posting that names an account in a currency for which the
\* account has no balance row, while the account has a committed row in
\* another currency, does not fail on the creation of the balance row.
C37_SecondCurrencyRowCreated ==
    \A p \in Callers :
        (/\ Returned(p) /\ req[p].kind = "simple"
         /\ balances[req[p].entries[1].code].exists
         /\ balances[req[p].entries[1].code].currency # req[p].entries[1].currency)
        => res[p].err # "BalanceExists"

\* The row is in a terminal state: delivered, or failed with its attempts
\* used up.
Terminal(row) ==
    \/ row.delivered # Null
    \/ row.failed # Null /\ row.attempts = row.max

\* C38: a step leaves every field of a terminal delivery row as it is and
\* sends no HTTP request for the row.
C38_TerminalAbsorbing ==
    [][\A id \in 1..Len(deliveries) :
          Terminal(deliveries[id])
          => deliveries'[id] = deliveries[id] /\ posts'[id] = posts[id]]_vars

\* ------------------------------------- postings of a subscribed tenant
\* The tenant has an enabled subscription to every supported event type
\* while its postings run. No step of a posting, and no other caller in the
\* program, calls QueueWebhookDelivery.
SubscribedInit ==
    /\ rev = "typed"
    /\ transactions = {} /\ lines = {} /\ events = {} /\ nextSeq = 1
    /\ balances = [c \in Codes |-> InitialBalanceRow(c)]
    /\ wTx = [p \in Callers |-> NoTx]
    /\ wLines = [p \in Callers |-> <<>>]
    /\ wBal = [p \in Callers |-> [c \in Codes |-> NoRow]]
    /\ wEvents = [p \in Callers |-> <<>>]
    /\ lockedBy = [c \in Codes |-> 0]
    /\ pc = [p \in Callers |-> "idle"]
    /\ req = [p \in Callers |-> NoReq]
    /\ res = [p \in Callers |-> NoRes]
    /\ idx = [p \in Callers |-> 0]
    /\ balRead = [p \in Callers |-> NoRow]
    /\ oldBal = [p \in Callers |-> 0]
    /\ changes = [p \in Callers |-> [c \in Codes |-> NoChange]]
    /\ replay = [p \in Callers |-> FALSE]
    /\ log = <<>>
    /\ SidesIdle
    /\ calc = NoCalc
    /\ clients = ValidClients
    /\ tenant = Subscribed
    /\ deliveries = <<>> /\ posts = <<>> /\ now = 0
    /\ pass = [w \in Passes |-> NoPass]
    /\ retry = NoRetry
    /\ queued = [n |-> 0, type |-> ""]
    /\ configures = 0
    /\ batchSize = WorkerBatchSize /\ ctx = "live"

SpecSubscribed == SubscribedInit /\ [][Next]_vars

\* C32: once every posting call has returned, each committed event of a type
\* the tenant subscribes to has a webhook-delivery row.
C32_CommittedEventQueued ==
    (\A p \in Callers : Returned(p))
    => \A e \in events :
          Subscribes(tenant, e.type)
          => \E id \in 1..Len(deliveries) : deliveries[id].event = e.type

\* ------------------------------------------- the worker under store faults
MaxLost == 1

\* A failure of processDelivery that aborts the pass.
LookupEscapes(w) ==
    /\ pass[w].pc = "deliver"
    /\ pass' = [pass EXCEPT ![w] = NoPass]
    /\ UNCHANGED <<postingVars, runVars, tenant, deliveries, now, retry, posts, queued,
                   configures>>

\* processDelivery when GetEventByID or GetTenantByID returns an error (a
\* store fault; every call under a cancelled context): the error is
\* returned before any HTTP request, the caller logs it and its loop goes on.
LookupFails(w) ==
    /\ pass[w].pc = "deliver"
    /\ pass' = [pass EXCEPT ![w] = NextDelivery(pass[w], w)]
    /\ UNCHANGED <<postingVars, runVars, tenant, deliveries, now, retry, posts, queued,
                   configures>>

\* processDelivery when the UPDATE of the row returns an error (a store
\* fault; every call under a cancelled context): the error is logged and the
\* row stays as it was. The store loses the UPDATE of at most the first
\* MaxLost requests of a row.
UpdateFails(w) ==
    /\ pass[w].pc = "update"
    /\ ctx = "cancelled" \/ posts[pass[w].batch[pass[w].i].id] <= MaxLost
    /\ pass' = [pass EXCEPT ![w] = NextDelivery(pass[w], w)]
    /\ UNCHANGED <<postingVars, runVars, tenant, deliveries, now, retry, posts, queued,
                   configures>>

\* The server shuts down: the context of StartDeliveryWorker is cancelled.
Shutdown ==
    /\ ctx = "live"
    /\ ctx' = "cancelled"
    /\ UNCHANGED <<postingVars, batchSize, tenant, deliveries, now, pass, retry, posts,
                   queued, configures>>

\* StartDeliveryWorker's select takes <-ctx.Done() and returns.
WorkerExit ==
    /\ pass["worker"].pc = "idle"
    /\ ctx = "cancelled"
    /\ pass' = [pass EXCEPT !["worker"].pc = "stopped"]
    /\ UNCHANGED <<postingVars, runVars, tenant, deliveries, now, retry, posts, queued,
                   configures>>

\* The worker fetches batches of more than one row.
FaultyInit ==
    /\ PostingsIdle
    /\ tenant = Subscribed
    /\ deliveries = <<>> /\ posts = <<>> /\ now = 0
    /\ pass = [w \in Passes |-> NoPass]
    /\ retry = NoRetry
    /\ queued = [n |-> 0, type |-> ""]
    /\ configures = 0
    /\ batchSize = WorkerBatchSize + 1 /\ ctx = "live"

\* The background worker with store faults and the shutdown of the server.
FaultyNext ==
    \/ Tick
    \/ QueueWebhookDelivery("transaction.posted")
    \/ Fetch("worker")
    \/ processDelivery("worker")
    \/ LookupFails("worker")
    \/ UpdateDelivery("worker")
    \/ UpdateFails("worker")
    \/ Shutdown
    \/ WorkerExit

SpecFaulty == FaultyInit /\ [][FaultyNext]_vars

\* The worker finishes the row it is at in this step.
RowEnds == pass["worker"].pc \in {"deliver", "update"} /\ pass'["worker"] # pass["worker"]
                /\ ~(pass["worker"].pc = "deliver" /\ pass'["worker"].pc = "update")

\* After a row the worker is at the next row of the same batch, or back in
\* its loop when the row was the last one; it has not returned.
LoopGoesOn ==
    LET ps == pass["worker"] IN
    /\ pass'["worker"].pc # "stopped"
    /\ IF ps.i < Len(ps.batch)
       THEN /\ pass'["worker"].pc = "deliver" /\ pass'["worker"].i = ps.i + 1
            /\ pass'["worker"].batch = ps.batch
       ELSE pass'["worker"].pc = "idle"

\* The failed attempt the worker made for its row is in the row: one more
\* attempt, the status code received.
FailurePersisted ==
    LET ps == pass["worker"]
        id == ps.batch[ps.i].id
    IN  /\ deliveries'[id].attempts = deliveries[id].attempts + 1
        /\ deliveries'[id].status = ps.result

\* The worker ends a row whose HTTP attempt failed.
FailedAttemptEnds ==
    /\ RowEnds /\ pass["worker"].pc = "update"
    /\ ~(pass["worker"].result >= 200 /\ pass["worker"].result < 300)

\* C31 as stated: whatever fails while the worker processes a row (lookup,
\* configuration, HTTP exchange, UPDATE of the row), the worker goes on with
\* the next row of the batch and stays in its loop, and a failed attempt is
\* recorded in the row.
C31_FailureStaysInWorker ==
    [][(RowEnds => LoopGoesOn) /\ (FailedAttemptEnds => FailurePersisted)]_vars

\* C31, amended: the worker goes on with the next row of the batch and stays
\* in its loop whatever fails, and a failed attempt is recorded in the row
\* unless the UPDATE of the row itself fails, which leaves every row as it
\* was.
C31_FailureStaysInWorkerUnlessUpdateFails ==
    [][(RowEnds => LoopGoesOn)
       /\ (FailedAttemptEnds => FailurePersisted \/ deliveries' = deliveries)]_vars

\* The first row of a batch of two failed at its lookup (no request sent,
\* row as queued) and the worker is at the second row.
C31_Witness ==
    LET ps == pass["worker"] IN
    /\ ps.pc = "deliver" /\ ps.i = 2 /\ Len(ps.batch) = 2
    /\ posts[ps.batch[1].id] = 0
    /\ deliveries[ps.batch[1].id].attempts = 0
    /\ ctx = "live"

\* C36: once the context is cancelled the worker starts no new attempt (no
\* HTTP request is sent), and the attempt that was in flight has its outcome
\* recorded when the worker leaves its row: one more attempt and the status
\* received are in the row.
C36_CleanShutdown ==
    [][ctx = "cancelled" =>
          /\ \A id \in 1..Len(posts) : posts'[id] = posts[id]
          /\ (RowEnds /\ pass["worker"].pc = "update")
             => LET ps == pass["worker"]
                    id == ps.batch[ps.i].id
                IN  /\ deliveries'[id].attempts = deliveries[id].attempts + 1
                    /\ deliveries'[id].status = ps.result]_vars

\* --------------------------------- a ProcessAllPendingDeliveries run alone
\* A step of the run's goroutine: a fetch, or the processing of a row with
\* whatever outcome its store calls and its HTTP exchange have.
CatchUpStep ==
    \/ Fetch("all")
    \/ processDelivery("all")
    \/ LookupFails("all")
    \/ UpdateDelivery("all")
    \/ UpdateFails("all")

CatchUpNext ==
    \/ QueueWebhookDelivery("transaction.posted")
    \/ CatchUpStep

\* The goroutine of the run is scheduled as long as it has a step to take.
SpecCatchUp == WebhookInit /\ [][CatchUpNext]_vars /\ WF_vars(CatchUpStep)

\* C39: a ProcessAllPendingDeliveries run over finitely many rows returns:
\* the run is again and again out of its loop.
C39_CatchUpTerminates == []<>(pass["all"].pc = "idle")

\* The worker holds the row in the batch it is working on.
InWork(id) ==
    /\ pass["worker"].pc \in {"deliver", "update"}
    /\ \E i \in pass["worker"].i..Len(pass["worker"].batch) : pass["worker"].batch[i].id = id

\* C35: a row is terminal (delivered_at or failed_at set) or the worker can
\* still get it: it is in the worker's batch, or its attempts < max_attempts
\* let a later fetch return it (no statement lowers attempts, and failed_at
\* is set only by an attempt); and no row has had more than max_attempts
\* HTTP attempts.
C35_RowReachesTerminal ==
    \A id \in 1..Len(deliveries) :
        /\ posts[id] <= deliveries[id].max
        /\ \/ deliveries[id].delivered # Null
           \/ deliveries[id].failed # Null
           \/ InWork(id)
           \/ deliveries[id].attempts < deliveries[id].max /\ deliveries[id].next # Null

\* ------------------------------------------ a consumer of the event stream
StreamLimit == 2

\* Each caller posts on an account of its own.
LaneClients ==
    [p \in Callers |->
        [codes |-> IF p = 1 THEN {"1000"} ELSE {"2000"}, amounts |-> 1..MaxAmount,
         currencies |-> {"NGN"}]]

\* A step of a posting call that waits for no other call.
PostingStep(p) ==
    \/ Call(p)
    \/ HandlerReject(p)
    \/ Probe(p)
    \/ Resolve(p)
    \/ CreateTransaction(p)
    \/ CreateTransactionLine(p)
    \/ GetOldBalance(p)
    \/ UabGet(p)
    \/ UabCreate(p)
    \/ UabReGet(p)
    \/ UabUpdate(p)
    \/ UpdateTransactionStatus(p)
    \/ PublishTransactionPosted(p)
    \/ PublishBalanceUpdated(p)
    \/ Commit(p)
    \/ Fail(p)

\* GetEventsAfterSequence: WHERE sequence_number > $1 ORDER BY
\* sequence_number ASC LIMIT $2, over the committed rows of events.
GetEventsAfterSequence(after, limit) ==
    LET S == {e.seq : e \in {x \in events : x.seq > after}}
        Nth[i \in 0..Cardinality(S)] ==
            IF i = 0 THEN after
            ELSE CHOOSE n \in S : n > Nth[i - 1] /\ \A m \in S : m > Nth[i - 1] => n <= m
        k == IF Cardinality(S) < limit THEN Cardinality(S) ELSE limit
    IN  [i \in 1..k |-> Nth[i]]

\* The consumer calls GetEventStream with the largest sequence number it
\* has received and takes what comes back.
Poll ==
    /\ LET batch == GetEventsAfterSequence(cursor, StreamLimit) IN
        /\ Len(batch) > 0
        /\ received' = received \o batch
        /\ cursor' = batch[Len(batch)]
    /\ UNCHANGED <<ledgerVars, whVars, chartVars, poolVars>>

LaneInit ==
    /\ rev = "typed"
    /\ transactions = {} /\ lines = {} /\ events = {} /\ nextSeq = 1
    /\ balances = [c \in Codes |-> InitialBalanceRow(c)]
    /\ wTx = [p \in Callers |-> NoTx]
    /\ wLines = [p \in Callers |-> <<>>]
    /\ wBal = [p \in Callers |-> [c \in Codes |-> NoRow]]
    /\ wEvents = [p \in Callers |-> <<>>]
    /\ lockedBy = [c \in Codes |-> 0]
    /\ pc = [p \in Callers |-> "idle"]
    /\ req = [p \in Callers |-> NoReq]
    /\ res = [p \in Callers |-> NoRes]
    /\ idx = [p \in Callers |-> 0]
    /\ balRead = [p \in Callers |-> NoRow]
    /\ oldBal = [p \in Callers |-> 0]
    /\ changes = [p \in Callers |-> [c \in Codes |-> NoChange]]
    /\ replay = [p \in Callers |-> FALSE]
    /\ log = <<>>
    /\ SidesIdle
    /\ calc = NoCalc
    /\ clients = LaneClients
    /\ NoWebhooks

StreamNext ==
    \/ \E p \in Callers : PostingStep(p)
    \/ Poll

SpecStream == LaneInit /\ [][StreamNext]_vars

\* C40: the consumer has received every committed event up to its cursor
\* (none that a later call, which asks for sequence numbers above the
\* cursor, can no longer return), each once and in ascending order.
C40_StreamDeliversAll ==
    /\ \A e \in events : e.seq <= cursor => e.seq \in Range(received)
    /\ \A i \in 1..Len(received) : \A j \in 1..Len(received) :
          i < j => received[i] < received[j]

\* ------------------------------------- the chart of accounts at run time
\* DeactivateAccount, first statement: ListAccountsByParent on the pool.
DeactivateChildren(code) ==
    /\ closing.pc = "idle"
    /\ AccountActive(code)
    /\ closing' = IF code \in children
                  THEN [pc |-> "done", code |-> code]
                  ELSE [pc |-> "balances", code |-> code]
    /\ UNCHANGED <<ledgerVars, whVars, streamVars, poolVars, deactivated, children, opening>>

\* DeactivateAccount, second statement: GetAccountBalances on the pool sees
\* the committed rows.
DeactivateBalances ==
    /\ closing.pc = "balances"
    /\ closing' = IF balances[closing.code].exists /\ balances[closing.code].balance # 0
                  THEN [closing EXCEPT !.pc = "done"]
                  ELSE [closing EXCEPT !.pc = "update"]
    /\ UNCHANGED <<ledgerVars, whVars, streamVars, poolVars, deactivated, children, opening>>

\* UPDATE accounts SET is_active = false WHERE id = $1
DeactivateAccount(code) == deactivated \cup {code}

\* DeactivateAccount, last statement.
DeactivateUpdate ==
    /\ closing.pc = "update"
    /\ deactivated' = DeactivateAccount(closing.code)
    /\ closing' = [closing EXCEPT !.pc = "done"]
    /\ UNCHANGED <<ledgerVars, whVars, streamVars, poolVars, children, opening>>

\* CreateAccount with a parent code: GetAccountByCode(parent) on the pool.
CreateAccountParent(parent) ==
    /\ opening.pc = "idle"
    /\ opening' = IF AccountActive(parent)
                  THEN [pc |-> "insert", parent |-> parent]
                  ELSE [pc |-> "done", parent |-> parent]
    /\ UNCHANGED <<ledgerVars, whVars, streamVars, poolVars, deactivated, children, closing>>

\* CreateAccount: the INSERT of the child row (is_active defaults to true).
CreateAccountInsert ==
    /\ opening.pc = "insert"
    /\ children' = children \cup {opening.parent}
    /\ opening' = [opening EXCEPT !.pc = "done"]
    /\ UNCHANGED <<ledgerVars, whVars, streamVars, poolVars, deactivated, closing>>

\* The operator works on the account the first caller posts on.
ChartNext ==
    \/ \E p \in Callers : PostingStep(p)
    \/ DeactivateChildren("1000")
    \/ DeactivateBalances
    \/ DeactivateUpdate
    \/ CreateAccountParent("1000")
    \/ CreateAccountInsert

SpecChart == LaneInit /\ [][ChartNext]_vars

\* C34: no account deactivated by DeactivateAccount has a non-zero
\* committed balance or an active child account.
C34_InactiveAccountIsEmpty ==
    \A code \in deactivated :
        /\ balances[code].exists => balances[code].balance = 0
        /\ code \notin children

\* ------------------------------- tenant requests on the shared connection pool
SchemaOf(t) == IF t = "a" THEN "tenant_a" ELSE "tenant_b"

\* A pooled connection no transaction holds: a statement sent through
\* db.Queries or db.Exec may run on any of them.
FreeConns == {c \in Conns : heldBy[c] = ""}

\* db.SetSearchPath: the per-request schema switch on a shared connection,
\* SET search_path on a connection of the pool, which keeps it when it goes
\* back to the pool.
SetSearchPath(c, schema) == [searchPath EXCEPT ![c] = schema]

\* "Set tenant schema": s.db.SetSearchPath(ctx, "tenant_"+tenantSlug).
RqSwitch(t) ==
    /\ rq[t].pc = "idle"
    /\ \E c \in FreeConns : searchPath' = SetSearchPath(c, SchemaOf(t))
    /\ rq' = [rq EXCEPT ![t].pc = "probe"]
    /\ UNCHANGED <<ledgerVars, whVars, streamVars, chartVars, heldBy>>

\* "Check idempotency": s.db.Queries.GetTransactionByIdempotencyKey runs on
\* a connection of the pool, in the namespace that connection names.
RqProbe(t) ==
    /\ rq[t].pc = "probe"
    /\ \E c \in FreeConns :
          rq' = [rq EXCEPT ![t].pc = "begin", ![t].used = @ \cup {searchPath[c]}]
    /\ UNCHANGED <<ledgerVars, whVars, streamVars, chartVars, searchPath, heldBy>>

\* s.db.Begin: the transaction takes a connection of the pool.
RqBegin(t) ==
    /\ rq[t].pc = "begin"
    /\ \E c \in FreeConns :
          /\ heldBy' = [heldBy EXCEPT ![c] = t]
          /\ rq' = [rq EXCEPT ![t].pc = "write", ![t].conn = c]
    /\ UNCHANGED <<ledgerVars, whVars, streamVars, chartVars, searchPath>>

\* The statements of qtx (accounts, transactions, lines, balances) run on
\* the transaction's connection.
RqWrite(t) ==
    /\ rq[t].pc = "write"
    /\ rq' = [rq EXCEPT ![t].pc = "commit",
                        ![t].used = @ \cup {searchPath[rq[t].conn]}]
    /\ UNCHANGED <<ledgerVars, whVars, streamVars, chartVars, searchPath, heldBy>>

\* tx.Commit gives the connection back to the pool.
RqCommit(t) ==
    /\ rq[t].pc = "commit"
    /\ heldBy' = [heldBy EXCEPT ![rq[t].conn] = ""]
    /\ rq' = [rq EXCEPT ![t].pc = "reset", ![t].conn = 0]
    /\ UNCHANGED <<ledgerVars, whVars, streamVars, chartVars, searchPath>>

\* defer s.db.SetSearchPath(ctx, "public").
RqReset(t) ==
    /\ rq[t].pc = "reset"
    /\ \E c \in FreeConns : searchPath' = SetSearchPath(c, "public")
    /\ rq' = [rq EXCEPT ![t].pc = "done"]
    /\ UNCHANGED <<ledgerVars, whVars, streamVars, chartVars, heldBy>>

PoolInit == PostingsIdle /\ NoWebhooks

PoolNext ==
    \E t \in Tenants :
        \/ RqSwitch(t)
        \/ RqProbe(t)
        \/ RqBegin(t)
        \/ RqWrite(t)
        \/ RqCommit(t)
        \/ RqReset(t)

SpecPool == PoolInit /\ [][PoolNext]_vars

\* C33: every store operation of a tenant's request ran in the namespace of
\* that tenant, never in another tenant's or in the public one.
C33_TenantNamespaceOnly ==
    \A t \in Tenants : rq[t].used \subseteq {SchemaOf(t)}

====
